---- MODULE Spec2Model ----
(***************************************************************************)
(* A model of mp4parse: the box walker of src/src/lib.rs (read_box_header, *)
(* the fixed-box parsers, recurse, read_box, read_box_from_buffer) and the *)
(* C API of src/src/capi.rs (the parser handle, mp4parse_read and its      *)
(* worker, the track queries).  Streams are sequences of bytes 0..255 and  *)
(* every field is decoded from them big-endian, as the code does.          *)
(***************************************************************************)
EXTENDS Integers, Sequences, FiniteSets, TLC

VARIABLES
    fuzz,     \* cfg!(feature = "fuzz"): fixed for a run of the program
    host,     \* the host's byte source behind io.userdata (data, position, faults)
    parser,   \* the one mp4parse_parser the host holds, or NoParser
    pc,       \* "idle": between calls; "walk": a box walk is running; "aborted"
    w,        \* the running (or last) box walk: entry, stack of streams, result
    ret       \* the last API call: its arguments and what it returned

vars == <<fuzz, host, parser, pc, w, ret>>

Min(a, b) == IF a < b THEN a ELSE b

(***************************************************************************)
(* Bounds of the model.                                                    *)
(***************************************************************************)
\* How many parsers the host allocates, one after the other.
MaxParsers == 1
\* The host callback may start failing at any position 0..MaxErrAt.
MaxErrAt == 12
\* A host callback that delivers short reads delivers 1..MaxChunk bytes.
MaxChunk == 1
\* The track indices the host asks for are 0..MaxTrack.
MaxTrack == 3

(***************************************************************************)
(* Bytes and big-endian integers.                                          *)
(***************************************************************************)
Zeros(n) == [i \in 1..n |-> 0]

\* byteorder's BigEndian::read_u32 / read_u64 over the bytes read.
RECURSIVE BigEndian(_)
BigEndian(s) ==
    IF s = <<>> THEN 0
    ELSE BigEndian(SubSeq(s, 1, Len(s) - 1)) * 256 + s[Len(s)]

\* fourcc_to_string: the four bytes of a u32 name, most significant first.
fourcc_to_string(name) ==
    << (name \div 16777216) % 256, (name \div 65536) % 256,
       (name \div 256) % 256, name % 256 >>

\* The four-character codes read_box dispatches on, as byte strings.
S_ftyp == <<102, 116, 121, 112>>
S_moov == <<109, 111, 111, 118>>
S_mvhd == <<109, 118, 104, 100>>
S_trak == <<116, 114, 97, 107>>
S_tkhd == <<116, 107, 104, 100>>

(***************************************************************************)
(* Byte sources.  A source is [kind, buf, pos, err, errAt, chunk, neg]:    *)
(*   kind "cursor": std::io::Cursor over buf (never fails);                *)
(*   kind "io": mp4parse_io, whose callback delivers the bytes of buf,     *)
(*     at most chunk per call when chunk > 0, and returns a negative       *)
(*     value once pos >= errAt when err is set; neg records that it did.   *)
(* A reader is [src, take, lim]: the source, read directly or through a    *)
(* Take with lim bytes left.                                               *)
(***************************************************************************)
Cursor(buf) ==
    [kind |-> "cursor", buf |-> buf, pos |-> 0, err |-> FALSE, errAt |-> 0,
     chunk |-> 0, neg |-> FALSE]

Avail(src) == IF src.pos >= Len(src.buf) THEN 0 ELSE Len(src.buf) - src.pos

\* The host callback returns a negative value.
CallbackFails(src) == src.kind = "io" /\ src.err /\ src.pos >= src.errAt

\* How many bytes one read call asking for `want` delivers.
Deliver(src, want) ==
    LET a == Min(want, Avail(src))
    IN  IF src.kind = "io" /\ src.chunk > 0 THEN Min(a, src.chunk) ELSE a

Direct(src) == [src |-> src, take |-> FALSE, lim |-> 0]

\* A Take over as many bytes as the whole box has, header included.
limit_whole_box(f, h) == [src |-> f, take |-> TRUE, lim |-> h.size]

\* limit: a Take over the contents of a box.
limit(f, h) == [src |-> f, take |-> TRUE, lim |-> h.size - h.offset]

\* Binding a value to a name, and the try! of a step: a failed step ends
\* the function with that failure, a good one goes on with its result.
With(v, K(_)) == K(v)
Fail(r) == [res |-> r.res, val |-> 0, rd |-> r.rd]
Panic(rd) == [res |-> "panic", val |-> 0, rd |-> rd]
Try(r, K(_)) == IF r.res # "ok" THEN Fail(r) ELSE K(r)

\* One Read::read call with an n-byte buffer: [res, val (the bytes), rd].
\* res is "ok" or "io".  A used-up Take returns 0 bytes without reading.
Delivered(rd, got) ==
    [res |-> "ok",
     val |-> SubSeq(rd.src.buf, rd.src.pos + 1, rd.src.pos + got),
     rd  |-> [rd EXCEPT !.src.pos = @ + got,
                        !.lim = IF rd.take THEN @ - got ELSE @]]

Rd(rd, n) ==
    IF rd.take /\ rd.lim = 0
    THEN [res |-> "ok", val |-> <<>>, rd |-> rd]
    ELSE IF CallbackFails(rd.src)
    THEN [res |-> "io", val |-> <<>>, rd |-> [rd EXCEPT !.src.neg = TRUE]]
    ELSE Delivered(rd, Deliver(rd.src, IF rd.take THEN Min(n, rd.lim) ELSE n))

\* byteorder's read_full: read until n bytes are in; a read of 0 bytes is
\* UnexpectedEOF ("eof"), a failed read is Io ("io").
RECURSIVE ReadFullAcc(_, _, _)
ReadFullAcc(rd, n, acc) ==
    IF n = 0 THEN [res |-> "ok", val |-> acc, rd |-> rd]
    ELSE With(Rd(rd, n), LAMBDA r :
         IF r.res = "io" THEN [res |-> "io", val |-> acc, rd |-> r.rd]
         ELSE IF Len(r.val) = 0 THEN [res |-> "eof", val |-> acc, rd |-> r.rd]
         ELSE ReadFullAcc(r.rd, n - Len(r.val), acc \o r.val))

\* read_u8 / read_u32::<BigEndian> / read_u64::<BigEndian>: [res, val, rd].
ReadUint(rd, n) ==
    Try(ReadFullAcc(rd, n, <<>>), LAMBDA r :
        [res |-> "ok", val |-> BigEndian(r.val), rd |-> r.rd])

\* .unwrap() on a Result: an Err becomes a panic.
Unwrap(r) == IF r.res = "ok" THEN r ELSE [r EXCEPT !.res = "panic"]

\* let r = try!(src.read(&mut skip)); assert!(r == skip.len());
SkipRead(rd, n) ==
    Try(Rd(rd, n), LAMBDA r :
        IF ~(Len(r.val) = n) THEN Panic(r.rd)
        ELSE [res |-> "ok", val |-> 0, rd |-> r.rd])

(***************************************************************************)
(* The box header codec and the fixed-box parsers (lib.rs).  Each returns  *)
(* [res, val, rd]: res is "ok", "eof" (byteorder::Error::UnexpectedEOF),   *)
(* "io" (byteorder::Error::Io) or "panic" (a failed assert!, unwrap or     *)
(* panic!); val is the decoded box when res = "ok".                        *)
(***************************************************************************)
NoHeader == [name |-> 0, size |-> 0, offset |-> 0]

\* An offset that takes every header for the normal form.
HeaderOffsetNormal(tmp_size) == 4 + 4

\* The offset of read_box_header: 16 in the extended form, else 8.
HeaderOffset(tmp_size) == IF tmp_size = 1 THEN 4 + 4 + 8 ELSE 4 + 4

\* A header decoder without the three assertions on the size.
read_box_header_unchecked(rd) ==
    Try(ReadUint(rd, 4), LAMBDA tmp_size :
    Try(ReadUint(tmp_size.rd, 4), LAMBDA name :
    Try(IF tmp_size.val = 1 THEN ReadUint(name.rd, 8)
        ELSE [res |-> "ok", val |-> tmp_size.val, rd |-> name.rd], LAMBDA size :
    [res |-> "ok",
     val |-> [name |-> name.val, size |-> size.val,
              offset |-> HeaderOffset(tmp_size.val)],
     rd  |-> size.rd])))

\* read_box_header.
read_box_header(rd) ==
    Try(ReadUint(rd, 4), LAMBDA tmp_size :
    Try(ReadUint(tmp_size.rd, 4), LAMBDA name :
    Try(IF tmp_size.val = 1 THEN ReadUint(name.rd, 8)
        ELSE [res |-> "ok", val |-> tmp_size.val, rd |-> name.rd], LAMBDA size :
    IF ~(size.val >= 8) THEN Panic(size.rd)
    ELSE IF tmp_size.val = 1 /\ ~(size.val >= 16) THEN Panic(size.rd)
    ELSE IF ~(HeaderOffset(tmp_size.val) <= size.val) THEN Panic(size.rd)
    ELSE [res |-> "ok",
          val |-> [name |-> name.val, size |-> size.val,
                   offset |-> HeaderOffset(tmp_size.val)],
          rd  |-> size.rd])))

\* read_fullbox_extra: version and the 24-bit flags; every read is unwrapped.
read_fullbox_extra(rd) ==
    Try(Unwrap(ReadUint(rd, 1)), LAMBDA version :
    Try(Unwrap(ReadUint(version.rd, 1)), LAMBDA flags_a :
    Try(Unwrap(ReadUint(flags_a.rd, 1)), LAMBDA flags_b :
    Try(Unwrap(ReadUint(flags_b.rd, 1)), LAMBDA flags_c :
    [res |-> "ok",
     val |-> [version |-> version.val,
              flags |-> flags_a.val * 65536 + flags_b.val * 256 + flags_c.val],
     rd  |-> flags_c.rd]))))

\* A skip that counts the header's bytes again.
skip_whole_box(f, header) == [f EXCEPT !.pos = @ + header.size]

\* skip_box_content: BufRead::consume advances the position by
\* size - offset, whatever is left in the buffer.
skip_box_content(f, header) ==
    [f EXCEPT !.pos = @ + (header.size - header.offset)]

\* The brand loop of read_ftyp: for _ in 0..brand_count { push(try!(read_u32)) }.
RECURSIVE ReadBrands(_, _, _)
ReadBrands(rd, count, brands) ==
    IF count = 0 THEN [res |-> "ok", val |-> brands, rd |-> rd]
    ELSE Try(ReadUint(rd, 4), LAMBDA b :
         ReadBrands(b.rd, count - 1, Append(brands, b.val)))

\* read_ftyp.  head.size - 8 - 8 is u64 arithmetic: below 16 it is an
\* arithmetic fault ("underflow": a panic with overflow checks, a wrapped
\* count without).
read_ftyp(rd, head) ==
    Try(ReadUint(rd, 4), LAMBDA major :
    Try(ReadUint(major.rd, 4), LAMBDA minor :
    IF head.size < 8 + 8 THEN [res |-> "underflow", val |-> 0, rd |-> minor.rd]
    ELSE
    Try(ReadBrands(minor.rd, (head.size - 8 - 8) \div 4, <<>>), LAMBDA brands :
    [res |-> "ok",
     val |-> [name |-> head.name, size |-> head.size,
              major_brand |-> major.val, minor_version |-> minor.val,
              compatible_brands |-> brands.val],
     rd  |-> brands.rd])))

\* The first match on version in read_mvhd and read_tkhd: the creation and
\* modification times are skipped.
SkipTimes(rd, version) ==
    IF version = 1 THEN SkipRead(rd, 16)
    ELSE IF version = 0 THEN SkipRead(rd, 8)
    ELSE Panic(rd)

\* A duration read as a 32-bit field in every version.
ReadDuration32(rd, version) ==
    IF version \in {0, 1} THEN ReadUint(rd, 4) ELSE Panic(rd)

\* The second match on version: the duration.
ReadDuration(rd, version) ==
    IF version = 1 THEN ReadUint(rd, 8)
    ELSE IF version = 0 THEN ReadUint(rd, 4)
    ELSE Panic(rd)

\* read_mvhd.
read_mvhd(rd, head) ==
    With(read_fullbox_extra(rd), LAMBDA fx :
    Try(fx, LAMBDA fx1 :
    Try(SkipTimes(fx.rd, fx.val.version), LAMBDA times :
    Try(Unwrap(ReadUint(times.rd, 4)), LAMBDA timescale :
    Try(ReadDuration(timescale.rd, fx.val.version), LAMBDA duration :
    Try(SkipRead(duration.rd, 80), LAMBDA rest :
    [res |-> "ok",
     val |-> [name |-> head.name, size |-> head.size,
              timescale |-> timescale.val, duration |-> duration.val],
     rd  |-> rest.rd]))))))

\* A test of bit 0 alone.
DisabledBit0(flags) == flags % 2 = 0

\* flags & 0x1 == 0 || flags & 0x2 == 0
Disabled(flags) == (flags % 2 = 0) \/ ((flags \div 2) % 2 = 0)

\* read_tkhd.
read_tkhd(rd, head) ==
    With(read_fullbox_extra(rd), LAMBDA fx :
    Try(fx, LAMBDA fx1 :
    Try(SkipTimes(fx.rd, fx.val.version), LAMBDA times :
    Try(ReadUint(times.rd, 4), LAMBDA track_id :
    Try(ReadUint(track_id.rd, 4), LAMBDA reserved1 :
    IF ~(reserved1.val = 0) THEN Panic(reserved1.rd)
    ELSE
    Try(ReadDuration(reserved1.rd, fx.val.version), LAMBDA duration :
    Try(ReadUint(duration.rd, 4), LAMBDA reserved2 :
    Try(ReadUint(reserved2.rd, 4), LAMBDA reserved3 :
    Try(SkipRead(reserved3.rd, 44), LAMBDA rest :
    Try(ReadUint(rest.rd, 4), LAMBDA width :
    Try(ReadUint(width.rd, 4), LAMBDA height :
    [res |-> "ok",
     val |-> [name |-> head.name, size |-> head.size,
              track_id |-> track_id.val, enabled |-> ~Disabled(fx.val.flags),
              duration |-> duration.val,
              width |-> width.val, height |-> height.val],
     rd  |-> height.rd])))))))))))

(***************************************************************************)
(* The box tree walker (lib.rs: recurse, read_box).                        *)
(***************************************************************************)
\* The first line of recurse: limit(f, &h).bytes().map(|u| u.unwrap())
\* .collect().  bytes() reads one byte per call until the Take is used up or
\* a read delivers nothing; a failed read panics in the unwrap.  n bytes are
\* there to collect; calls reads reach the source, at rd.src.pos,
\* rd.src.pos + 1, ...: one per byte, and one more to find the end when the
\* stream ends before the Take does.
SlurpResult(rd, fails, got) ==
    [res |-> IF fails THEN "panic" ELSE "ok",
     val |-> SubSeq(rd.src.buf, rd.src.pos + 1, rd.src.pos + got),
     rd  |-> [rd EXCEPT !.src.pos = @ + got, !.lim = @ - got,
                        !.src.neg = @ \/ fails]]

SlurpCalls(rd, n) == IF n < rd.lim THEN n + 1 ELSE n

SlurpFails(rd, calls) ==
    /\ rd.src.kind = "io" /\ rd.src.err
    /\ calls > 0
    /\ rd.src.pos + calls - 1 >= rd.src.errAt

Slurp(rd) ==
    With(Min(rd.lim, Avail(rd.src)), LAMBDA n :
    With(SlurpFails(rd, SlurpCalls(rd, n)), LAMBDA fails :
    SlurpResult(rd, fails,
                IF ~fails THEN n
                ELSE IF rd.src.errAt > rd.src.pos THEN rd.src.errAt - rd.src.pos
                ELSE 0)))

\* What one call of read_box does to the stream f, up to the point where a
\* container's children are walked: [res, f, h, kind, stage, child, val];
\* val is the box a leaf parser decoded (read_box prints it).
\*   stage "header": read_box_header failed; "content": a header was decoded.
\*   kind "leaf" (ftyp, mvhd, tkhd), "container" (moov, trak: child is the
\*   buffer recurse collected) or "skip".
Leaf(r, h) ==
    [res |-> r.res, f |-> r.rd.src, h |-> h, kind |-> "leaf",
     stage |-> "content", child |-> <<>>, val |-> r.val]

Container(buf, h) ==
    [res |-> buf.res, f |-> buf.rd.src, h |-> h, kind |-> "container",
     stage |-> "content", child |-> buf.val, val |-> 0]

Skipped(f, h) ==
    [res |-> "ok", f |-> f, h |-> h, kind |-> "skip", stage |-> "content",
     child |-> <<>>, val |-> 0]

\* The match on the box type in read_box.
BoxContent(f, h, name) ==
    IF name = S_ftyp THEN Leaf(read_ftyp(limit(f, h), h), h)
    ELSE IF name = S_moov THEN Container(Slurp(limit(f, h)), h)
    ELSE IF name = S_mvhd THEN Leaf(read_mvhd(limit(f, h), h), h)
    ELSE IF name = S_trak THEN Container(Slurp(limit(f, h)), h)
    ELSE IF name = S_tkhd THEN Leaf(read_tkhd(limit(f, h), h), h)
    ELSE Skipped(skip_box_content(f, h), h)

read_box(f) ==
    With(read_box_header(Direct(f)), LAMBDA hr :
    IF hr.res # "ok"
    THEN [res |-> hr.res, f |-> hr.rd.src, h |-> NoHeader, kind |-> "none",
          stage |-> "header", child |-> <<>>, val |-> 0]
    ELSE BoxContent(hr.rd.src, hr.val, fourcc_to_string(hr.val.name)))

\* A stream of the walk: the source, and for a container's cursor the
\* container's header and where that header began in the enclosing stream.
Frame(src, h, start) == [src |-> src, h |-> h, start |-> start]

NoLast ==
    [depth |-> 0, start |-> 0, len |-> 0, h |-> NoHeader, kind |-> "none",
     stage |-> "none", res |-> "none", end |-> 0, val |-> 0]

NoWalk ==
    [entry |-> "none", stack |-> <<>>, res |-> "idle", moov |-> FALSE,
     cbneg |-> FALSE, short |-> FALSE, err |-> "none", last |-> NoLast]

\* The walk a call starts over the stream src.
StartWalk(entry, src) ==
    [NoWalk EXCEPT !.entry = entry, !.res = "running",
                   !.stack = << Frame(src, NoHeader, 0) >>]

\* A loop that does not stop at the end of its stream.
WalkResNoBreak(entry, d, r) ==
    IF r.res \in {"ok", "eof"} THEN "running" ELSE r.res

\* The result of the walk after read_box returned r at depth d:
\*   Ok: the loop of recurse (or of the driver of mp4parse_read) goes on; the
\*     one read_box call of read_box_from_buffer has returned.
\*   UnexpectedEOF: recurse breaks and returns Ok to the read_box that called
\*     it; from the outermost read_box it is what the caller of the walk gets.
\*   Io: returned through every recurse and read_box to the caller.
\*   a panic unwinds the worker.
WalkRes(entry, d, r) ==
    IF r.res = "ok"
    THEN IF entry = "buffer" /\ d = 1 /\ r.kind # "container" THEN "ok"
         ELSE "running"
    ELSE IF r.res = "eof"
    THEN IF d = 1 THEN "eof"
         ELSE IF entry = "buffer" /\ d = 2 THEN "ok"
         ELSE "running"
    ELSE r.res

\* The streams of the walk after read_box returned r at depth d: a container
\* adds the cursor over its content, the end of a cursor drops it.
WalkStack(stack, d, r, start) ==
    IF r.res = "ok" /\ r.kind = "container"
    THEN Append([stack EXCEPT ![d].src = r.f], Frame(Cursor(r.child), r.h, start))
    ELSE IF r.res = "eof" /\ d > 1
    THEN SubSeq(stack, 1, d - 1)
    ELSE [stack EXCEPT ![d].src = r.f]

\* An error other than the end of the stream at a box boundary.
Unclean(r) ==
    \/ r.res \in {"io", "panic", "underflow"}
    \/ r.res = "eof" /\ r.stage = "content"

\* The walk wk after read_box returned r for its innermost stream top, at
\* depth d.
WalkStep(wk, d, top, r) ==
    [wk EXCEPT
     !.stack = WalkStack(wk.stack, d, r, top.src.pos),
     !.res = WalkRes(wk.entry, d, r),
     !.moov = @ \/ (d = 1 /\ r.res = "ok" /\ fourcc_to_string(r.h.name) = S_moov),
     !.cbneg = @ \/ r.f.neg,
     !.short = @ \/ (r.stage = "content"
                     /\ top.src.pos + r.h.size > Len(top.src.buf)),
     !.err = IF @ = "none" /\ Unclean(r) THEN r.res ELSE @,
     !.last = [depth |-> d, start |-> top.src.pos, len |-> Len(top.src.buf),
               h |-> r.h, kind |-> r.kind, stage |-> r.stage, res |-> r.res,
               end |-> r.f.pos, val |-> r.val]]

\* One read_box call on the innermost stream of the walk.
ReadBox ==
    /\ pc = "walk"
    /\ w.res = "running"
    /\ w' = WalkStep(w, Len(w.stack), w.stack[Len(w.stack)],
                     read_box(w.stack[Len(w.stack)].src))
    /\ UNCHANGED <<fuzz, host, parser, pc, ret>>

(***************************************************************************)
(* The C API (capi.rs).  The MediaContext, read_mp4 and the time           *)
(* conversions are not part of the sources at hand; they are modelled from *)
(* the specification and marked so.                                        *)
(***************************************************************************)
None == [some |-> FALSE, v |-> 0]
Some(x) == [some |-> TRUE, v |-> x]

NoEntry == [kind |-> "None", channelcount |-> 0, samplesize |-> 0,
            samplerate |-> 0, width |-> 0, height |-> 0]
AudioEntry(ch, bits, rate) ==
    [NoEntry EXCEPT !.kind = "Audio", !.channelcount = ch, !.samplesize = bits,
                    !.samplerate = rate]
VideoEntry(wd, ht) == [NoEntry EXCEPT !.kind = "Video", !.width = wd, !.height = ht]

NoTkhd == [some |-> FALSE, width |-> 0, height |-> 0]
Tkhd(wd, ht) == [some |-> TRUE, width |-> wd, height |-> ht]

\* MediaContext::new(): no timescale, no tracks.
EmptyContext == [timescale |-> None, tracks |-> <<>>]

\* The copy of the I/O descriptor a handle holds.
HostIo == [read |-> "callback", userdata |-> "host"]

NoParser ==
    [live |-> FALSE, made |-> 0, context |-> EmptyContext, io |-> HostIo,
     poisoned |-> FALSE]

\* The output structures of the three queries, as one record; a query writes
\* its own fields.  DummyOut is what the caller passes in.
DummyOut ==
    [track_type |-> "VIDEO", track_id |-> 0, duration |-> 0, media_time |-> 0,
     channels |-> 0, bit_depth |-> 0, sample_rate |-> 0,
     display_width |-> 0, display_height |-> 0,
     image_width |-> 0, image_height |-> 0]

Ret(op, hnull, track, onull, status, val, outv) ==
    [op |-> op, hnull |-> hnull, track |-> track, onull |-> onull,
     status |-> status, val |-> val, outv |-> outv]

NoRet == Ret("none", FALSE, 0, FALSE, "none", 0, DummyOut)

\* track_time_to_ms / media_time_to_ms: ticks at a timescale to milliseconds.
track_time_to_ms(time, scale) == (time * 1000) \div scale
media_time_to_ms(time, scale) == (time * 1000) \div scale

\* An mp4parse_new that does not look at the read callback.
mp4parse_new_unchecked_read(ioNull, userdataNull, readNull) ==
    /\ pc = "idle"
    /\ ~parser.live
    /\ parser.made < MaxParsers
    /\ IF ioNull \/ userdataNull
       THEN /\ ret' = Ret("new", FALSE, 0, FALSE, "null", 0, DummyOut)
            /\ UNCHANGED parser
       ELSE /\ parser' = [live |-> TRUE, made |-> parser.made + 1,
                          context |-> EmptyContext, io |-> HostIo,
                          poisoned |-> FALSE]
            /\ ret' = Ret("new", FALSE, 0, FALSE, "handle", 0, DummyOut)
    /\ UNCHANGED <<fuzz, host, pc, w>>

\* mp4parse_new.
mp4parse_new(ioNull, userdataNull, readNull) ==
    /\ pc = "idle"
    /\ ~parser.live
    /\ parser.made < MaxParsers
    /\ IF ioNull \/ userdataNull
       THEN /\ ret' = Ret("new", FALSE, 0, FALSE, "null", 0, DummyOut)
            /\ UNCHANGED parser
       ELSE IF readNull
       THEN /\ ret' = Ret("new", FALSE, 0, FALSE, "null", 0, DummyOut)
            /\ UNCHANGED parser
       ELSE /\ parser' = [live |-> TRUE, made |-> parser.made + 1,
                          context |-> EmptyContext, io |-> HostIo,
                          poisoned |-> FALSE]
            /\ ret' = Ret("new", FALSE, 0, FALSE, "handle", 0, DummyOut)
    /\ UNCHANGED <<fuzz, host, pc, w>>

\* mp4parse_free: assert!(!parser.is_null()); then the Box is dropped.
mp4parse_free(hnull) ==
    /\ pc = "idle"
    /\ hnull \/ parser.live
    /\ IF hnull
       THEN /\ pc' = "aborted"
            /\ UNCHANGED parser
       ELSE /\ parser' = [parser EXCEPT !.live = FALSE]
            /\ UNCHANGED pc
    /\ ret' = Ret("free", hnull, 0, FALSE, "none", 0, DummyOut)
    /\ UNCHANGED <<fuzz, host, w>>

\* A validation of mp4parse_read that forgets the null handle.
ReadBadArgPoisonedOnly(hnull, p) == p.poisoned

\* A validation of mp4parse_read that forgets the poisoned flag.
ReadBadArgNullOnly(hnull, p) == hnull

\* The argument validation of mp4parse_read.
ReadBadArg(hnull, p) == hnull \/ p.poisoned

\* mp4parse_read up to the start of read_mp4: the argument check, then the
\* walk over the handle's io (in a spawned thread unless built for fuzzing).
mp4parse_read(hnull) ==
    /\ pc = "idle"
    /\ hnull \/ parser.live
    /\ IF ReadBadArg(hnull, parser)
       THEN /\ ret' = Ret("read", hnull, 0, FALSE, "BADARG", 0, DummyOut)
            /\ UNCHANGED <<pc, w>>
       ELSE /\ pc' = "walk"
            /\ w' = StartWalk("read", [host EXCEPT !.neg = FALSE])
            /\ ret' = Ret("read", hnull, 0, FALSE, "running", 0, DummyOut)
    /\ UNCHANGED <<fuzz, host, parser>>

\* What read_mp4 returns for a finished walk (sink: what recording the boxes
\* into the MediaContext came to).  "Panic" is a panicked worker; the end of
\* the stream where a header is read ends the loop over the top-level boxes.
read_mp4(wk, sink) ==
    IF wk.res \in {"panic", "underflow"} THEN "Panic"
    ELSE IF wk.res = "io" THEN "Io"
    ELSE IF ~wk.moov THEN "NoMoov"
    ELSE sink

\* task.join().unwrap_or_else(|_| Err(Error::AssertCaught))
JoinResult(r) == IF r = "Panic" THEN "AssertCaught" ELSE r

\* An is_err that lets an unsupported stream pass.
IsErrButUnsupported(r) == r \notin {"Ok", "Unsupported"}

\* (*parser).set_poisoned(r.is_err())
IsErr(r) == r # "Ok"

\* A match on r that reports a caught panic as invalid data.
StatusOfAssertAsInvalid(r) ==
    CASE r = "Ok" -> "OK"
      [] r \in {"NoMoov", "InvalidData", "AssertCaught"} -> "INVALID"
      [] r = "Unsupported" -> "UNSUPPORTED"
      [] r = "Io" -> "EOF"

\* The match on r at the end of mp4parse_read.  UnexpectedEOF in the arm
\* Err(Error::Io(UnexpectedEOF)) names nothing in scope, so it is a binding
\* that matches every Io error; the arm Err(Error::Io(e)) after it is never
\* taken.
StatusOf(r) ==
    CASE r = "Ok" -> "OK"
      [] r \in {"NoMoov", "InvalidData"} -> "INVALID"
      [] r = "Unsupported" -> "UNSUPPORTED"
      [] r = "AssertCaught" -> "ASSERT"
      [] r = "Io" -> "EOF"

\* An mp4parse_read that goes on without joining its worker: it takes the
\* result, writes the poisoned flag and returns while the walk may still run.
mp4parse_read_join_detached(sink, ctx) ==
    /\ pc = "walk"
    /\ w.entry = "read"
    /\ pc' = "idle"
    /\ parser' = [parser EXCEPT
                  !.poisoned = IsErr(JoinResult(read_mp4(w, sink))),
                  !.context = IF read_mp4(w, sink) = "Ok" THEN ctx ELSE @]
    /\ ret' = [ret EXCEPT !.status = StatusOf(JoinResult(read_mp4(w, sink)))]
    /\ host' = [w.stack[1].src EXCEPT !.neg = FALSE]
    /\ UNCHANGED <<fuzz, w>>

\* The rest of mp4parse_read once the walk has ended.  Built for fuzzing, a
\* panic of read_mp4 is a panic of the caller.
mp4parse_read_join(sink, ctx) ==
    /\ pc = "walk"
    /\ w.entry = "read"
    /\ w.res # "running"
    /\ LET rm == read_mp4(w, sink)
           r == JoinResult(rm)
       IN  IF fuzz /\ rm = "Panic"
           THEN /\ pc' = "aborted"
                /\ ret' = [ret EXCEPT !.status = "none"]
                /\ UNCHANGED parser
           ELSE /\ pc' = "idle"
                /\ parser' = [parser EXCEPT
                              !.poisoned = IsErr(r),
                              !.context = IF r = "Ok" THEN ctx ELSE @]
                /\ ret' = [ret EXCEPT !.status = StatusOf(r)]
    /\ host' = [w.stack[1].src EXCEPT !.neg = FALSE]
    /\ UNCHANGED <<fuzz, w>>

\* An mp4parse_get_track_count without its assertion.
mp4parse_get_track_count_unchecked(hnull) ==
    /\ pc = "idle"
    /\ hnull \/ parser.live
    /\ ret' = Ret("get_track_count", hnull, 0, FALSE, "returned",
                  Len(parser.context.tracks), DummyOut)
    /\ UNCHANGED <<fuzz, host, parser, pc, w>>

\* mp4parse_get_track_count.
mp4parse_get_track_count(hnull) ==
    /\ pc = "idle"
    /\ hnull \/ parser.live
    /\ IF ~(~hnull /\ ~parser.poisoned)
       THEN /\ pc' = "aborted"
            /\ ret' = Ret("get_track_count", hnull, 0, FALSE, "none", 0, DummyOut)
       ELSE /\ ret' = Ret("get_track_count", hnull, 0, FALSE, "returned",
                          Len(parser.context.tracks), DummyOut)
            /\ UNCHANGED pc
    /\ UNCHANGED <<fuzz, host, parser, w>>

\* A track query that converts the media time at the global timescale.
get_track_info_global_scale(p, hnull, track, onull, info) ==
    IF hnull \/ onull \/ p.poisoned THEN [status |-> "BADARG", out |-> info]
    ELSE IF track >= Len(p.context.tracks)
    THEN [status |-> "BADARG", out |-> info]
    ELSE IF p.context.tracks[track + 1].track_type = "Unknown"
    THEN [status |-> "UNSUPPORTED", out |-> info]
    ELSE IF \/ ~p.context.timescale.some
            \/ ~p.context.tracks[track + 1].timescale.some
            \/ ~p.context.tracks[track + 1].duration.some
            \/ ~p.context.tracks[track + 1].track_id.some
    THEN [status |-> "INVALID", out |-> info]
    ELSE [status |-> "OK",
          out |-> [info EXCEPT
                   !.media_time =
                       (IF p.context.tracks[track + 1].media_time.some
                        THEN track_time_to_ms(
                                 p.context.tracks[track + 1].media_time.v,
                                 p.context.timescale.v)
                        ELSE 0)
                       - (IF p.context.tracks[track + 1].empty_duration.some
                          THEN media_time_to_ms(
                                   p.context.tracks[track + 1].empty_duration.v,
                                   p.context.timescale.v)
                          ELSE 0),
                   !.duration = track_time_to_ms(
                                    p.context.tracks[track + 1].duration.v,
                                    p.context.tracks[track + 1].timescale.v),
                   !.track_id = p.context.tracks[track + 1].track_id.v]]

\* mp4parse_get_track_info: [status, out].
get_track_info(p, hnull, track, onull, info) ==
    IF hnull \/ onull \/ p.poisoned THEN [status |-> "BADARG", out |-> info]
    ELSE LET context == p.context
             track_index == track
         IN  IF track_index >= Len(context.tracks)
             THEN [status |-> "BADARG", out |-> info]
             ELSE LET t == context.tracks[track_index + 1]
                      info1 == [info EXCEPT !.track_type =
                                   IF t.track_type = "Video" THEN "VIDEO"
                                   ELSE "AUDIO"]
                      media_time ==
                          (IF t.media_time.some
                           THEN track_time_to_ms(t.media_time.v, t.timescale.v)
                           ELSE 0)
                          - (IF t.empty_duration.some
                             THEN media_time_to_ms(t.empty_duration.v,
                                                   context.timescale.v)
                             ELSE 0)
                  IN  IF t.track_type = "Unknown"
                      THEN [status |-> "UNSUPPORTED", out |-> info]
                      ELSE IF \/ ~context.timescale.some
                              \/ ~t.timescale.some
                              \/ ~t.duration.some
                              \/ ~t.track_id.some
                      THEN [status |-> "INVALID", out |-> info1]
                      ELSE [status |-> "OK",
                            out |-> [info1 EXCEPT
                                     !.media_time = media_time,
                                     !.duration = track_time_to_ms(
                                                      t.duration.v, t.timescale.v),
                                     !.track_id = t.track_id.v]]

\* An audio query that writes the output before it looks at the track index.
get_track_audio_info_writes_first(p, hnull, track, onull, info) ==
    IF hnull \/ onull \/ p.poisoned THEN [status |-> "BADARG", out |-> info]
    ELSE [status |-> "BADARG", out |-> [info EXCEPT !.channels = 2]]

\* mp4parse_get_track_audio_info: [status, out].
get_track_audio_info(p, hnull, track, onull, info) ==
    IF hnull \/ onull \/ p.poisoned THEN [status |-> "BADARG", out |-> info]
    ELSE LET context == p.context
         IN  IF track >= Len(context.tracks)
             THEN [status |-> "BADARG", out |-> info]
             ELSE LET t == context.tracks[track + 1]
                      audio == t.data
                  IN  IF t.track_type # "Audio"
                      THEN [status |-> "INVALID", out |-> info]
                      ELSE IF audio.kind = "None"
                      THEN [status |-> "INVALID", out |-> info]
                      ELSE IF audio.kind # "Audio"
                      THEN [status |-> "INVALID", out |-> info]
                      ELSE [status |-> "OK",
                            out |-> [info EXCEPT
                                     !.channels = audio.channelcount,
                                     !.bit_depth = audio.samplesize,
                                     !.sample_rate = audio.samplerate \div 65536]]

\* A video query that accepts every track in range.
get_track_video_info_any_track(p, hnull, track, onull, info) ==
    IF hnull \/ onull \/ p.poisoned THEN [status |-> "BADARG", out |-> info]
    ELSE IF track >= Len(p.context.tracks)
    THEN [status |-> "BADARG", out |-> info]
    ELSE [status |-> "OK", out |-> info]

\* A video query that rounds the display size to the nearest integer.
get_track_video_info_rounded(p, hnull, track, onull, info) ==
    IF hnull \/ onull \/ p.poisoned THEN [status |-> "BADARG", out |-> info]
    ELSE IF track >= Len(p.context.tracks)
    THEN [status |-> "BADARG", out |-> info]
    ELSE LET t == p.context.tracks[track + 1]
         IN  IF t.track_type # "Video" \/ t.data.kind # "Video" \/ ~t.tkhd.some
             THEN [status |-> "INVALID", out |-> info]
             ELSE [status |-> "OK",
                   out |-> [info EXCEPT
                            !.display_width = (t.tkhd.width + 32768) \div 65536,
                            !.display_height = (t.tkhd.height + 32768) \div 65536,
                            !.image_width = t.data.width,
                            !.image_height = t.data.height]]

\* mp4parse_get_track_video_info: [status, out].
get_track_video_info(p, hnull, track, onull, info) ==
    IF hnull \/ onull \/ p.poisoned THEN [status |-> "BADARG", out |-> info]
    ELSE LET context == p.context
         IN  IF track >= Len(context.tracks)
             THEN [status |-> "BADARG", out |-> info]
             ELSE LET t == context.tracks[track + 1]
                      video == t.data
                  IN  IF t.track_type # "Video"
                      THEN [status |-> "INVALID", out |-> info]
                      ELSE IF video.kind = "None"
                      THEN [status |-> "INVALID", out |-> info]
                      ELSE IF video.kind # "Video"
                      THEN [status |-> "INVALID", out |-> info]
                      ELSE IF ~t.tkhd.some
                      THEN [status |-> "INVALID", out |-> info]
                      ELSE [status |-> "OK",
                            out |-> [info EXCEPT
                                     !.display_width = t.tkhd.width \div 65536,
                                     !.display_height = t.tkhd.height \div 65536,
                                     !.image_width = video.width,
                                     !.image_height = video.height]]

\* A track info query that poisons the handle when it does not return
\* MP4PARSE_OK.
mp4parse_get_track_info_poisons(hnull, track, onull) ==
    /\ pc = "idle"
    /\ hnull \/ parser.live
    /\ ret' = Ret("get_track_info", hnull, track, onull,
                  get_track_info(parser, hnull, track, onull, DummyOut).status, 0,
                  get_track_info(parser, hnull, track, onull, DummyOut).out)
    /\ parser' = IF hnull
                 \/ get_track_info(parser, hnull, track, onull, DummyOut).status = "OK"
                 THEN parser ELSE [parser EXCEPT !.poisoned = TRUE]
    /\ UNCHANGED <<fuzz, host, pc, w>>

\* The three queries as calls with the caller's structure DummyOut.
mp4parse_get_track_info(hnull, track, onull) ==
    /\ pc = "idle"
    /\ hnull \/ parser.live
    /\ ret' = Ret("get_track_info", hnull, track, onull,
                  get_track_info(parser, hnull, track, onull, DummyOut).status, 0,
                  get_track_info(parser, hnull, track, onull, DummyOut).out)
    /\ UNCHANGED <<fuzz, host, parser, pc, w>>

mp4parse_get_track_audio_info(hnull, track, onull) ==
    /\ pc = "idle"
    /\ hnull \/ parser.live
    /\ ret' = Ret("get_track_audio_info", hnull, track, onull,
                  get_track_audio_info(parser, hnull, track, onull, DummyOut).status, 0,
                  get_track_audio_info(parser, hnull, track, onull, DummyOut).out)
    /\ UNCHANGED <<fuzz, host, parser, pc, w>>

mp4parse_get_track_video_info(hnull, track, onull) ==
    /\ pc = "idle"
    /\ hnull \/ parser.live
    /\ ret' = Ret("get_track_video_info", hnull, track, onull,
                  get_track_video_info(parser, hnull, track, onull, DummyOut).status, 0,
                  get_track_video_info(parser, hnull, track, onull, DummyOut).out)
    /\ UNCHANGED <<fuzz, host, parser, pc, w>>

\* read_box_from_buffer up to the spawn: the argument check, then one
\* read_box over a Cursor on the buffer, in a spawned thread.
read_box_from_buffer(bufNull) ==
    /\ pc = "idle"
    /\ IF bufNull \/ Len(host.buf) < 8
       THEN /\ ret' = Ret("read_box_from_buffer", bufNull, 0, FALSE, "false", 0,
                          DummyOut)
            /\ UNCHANGED <<pc, w>>
       ELSE /\ pc' = "walk"
            /\ w' = StartWalk("buffer", Cursor(host.buf))
            /\ ret' = Ret("read_box_from_buffer", bufNull, 0, FALSE, "running",
                          0, DummyOut)
    /\ UNCHANGED <<fuzz, host, parser>>

\* A result that does not look at how the worker ended.
BufferResultUnjoined(wres) == "true"

\* The closure of read_box_from_buffer: UnexpectedEOF is mapped to Ok and the
\* result unwrapped; task.join().is_ok().
BufferResult(wres) == IF wres \in {"ok", "eof"} THEN "true" ELSE "false"

read_box_from_buffer_join ==
    /\ pc = "walk"
    /\ w.entry = "buffer"
    /\ w.res # "running"
    /\ pc' = "idle"
    /\ ret' = [ret EXCEPT !.status = BufferResult(w.res)]
    /\ UNCHANGED <<fuzz, host, parser, w>>

(***************************************************************************)
(* Inputs: box streams, built the way the tests of lib.rs build theirs.    *)
(***************************************************************************)
U32(n) == fourcc_to_string(n)

S_free == <<102, 114, 101, 101>>
S_test == <<116, 101, 115, 116>>
S_long == <<108, 111, 110, 103>>
S_mp42 == <<109, 112, 52, 50>>
S_isom == <<105, 115, 111, 109>>

\* A box with a 32-bit size, and one in the extended form (size field 1,
\* then the 64-bit size).
Box(size, type, content) == U32(size) \o type \o content
BoxExt(size, type, content) == U32(1) \o type \o Zeros(4) \o U32(size) \o content

FtypBody == S_mp42 \o U32(0) \o S_isom \o S_mp42

MvhdBody(version, timescale, duration) ==
    <<version, 0, 0, 0>> \o Zeros(IF version = 1 THEN 16 ELSE 8)
    \o U32(timescale)
    \o (IF version = 1 THEN Zeros(4) ELSE <<>>) \o U32(duration)
    \o Zeros(80)

TkhdBody(version, flags, track_id, reserved, duration, wd, ht) ==
    <<version, 0, 0, flags>> \o Zeros(IF version = 1 THEN 16 ELSE 8)
    \o U32(track_id) \o U32(reserved)
    \o (IF version = 1 THEN Zeros(4) ELSE <<>>) \o U32(duration)
    \o Zeros(8) \o Zeros(44) \o U32(wd) \o U32(ht)

Tkhd0 == TkhdBody(0, 3, 1, 0, 3600, 320 * 65536, 240 * 65536)

Streams ==
    { \* the streams of test_read_box_header, _long and test_read_ftyp
      Box(8, S_test, <<>>),
      U32(1) \o S_long \o <<0, 0, 0, 0, 0, 0, 16, 0>>,
      Box(24, S_ftyp, FtypBody),
      \* a file type box, then a box that is skipped
      Box(24, S_ftyp, FtypBody) \o Box(12, S_free, Zeros(4)),
      \* ftyp, moov { mvhd, trak { tkhd } }, free
      Box(24, S_ftyp, FtypBody)
        \o Box(216, S_moov,
               Box(108, S_mvhd, MvhdBody(0, 90, 3600))
               \o Box(100, S_trak, Box(92, S_tkhd, Tkhd0)))
        \o Box(8, S_free, <<>>),
      \* leaf boxes that declare more than their fields take
      Box(26, S_ftyp, FtypBody \o <<0, 0>>) \o Box(8, S_free, <<>>),
      Box(112, S_mvhd, MvhdBody(0, 90, 3600) \o Zeros(4)) \o Box(8, S_free, <<>>),
      \* a child that declares more than its container holds
      Box(20, S_moov, Box(24, S_ftyp, S_mp42)) \o Box(8, S_free, <<>>),
      Box(28, S_moov, Box(100, S_trak, Box(12, S_free, Zeros(4))))
        \o Box(8, S_free, <<>>),
      \* invalid sizes
      Box(0, S_free, <<>>),
      Box(4, S_free, <<>>),
      Box(8, S_free, <<>>) \o Box(7, S_free, <<>>),
      BoxExt(8, S_free, <<>>),
      \* an unknown version, a non-zero reserved field
      Box(108, S_mvhd, MvhdBody(2, 90, 3600)),
      Box(92, S_tkhd, TkhdBody(0, 1, 1, 1, 3600, 0, 0)),
      Box(92, S_tkhd, TkhdBody(2, 3, 1, 0, 3600, 0, 0)),
      \* a non-zero reserved field after the duration
      Box(92, S_tkhd, [Tkhd0 EXCEPT ![28] = 1]),
      \* a skipped box that declares more than the stream holds
      Box(40, S_free, Zeros(4)),
      \* the extended form: skipped, ftyp, and version 1 of mvhd and tkhd
      BoxExt(20, S_free, Zeros(4)) \o BoxExt(32, S_ftyp, FtypBody),
      Box(232, S_moov,
          Box(120, S_mvhd, MvhdBody(1, 90, 3600))
          \o Box(104, S_tkhd, TkhdBody(1, 3, 2, 0, 2944, 0, 0))) }

\* The host's byte source over the bytes data.
HostSrc(data, err, errAt, chunk) ==
    [kind |-> "io", buf |-> data, pos |-> 0, err |-> err, errAt |-> errAt,
     chunk |-> chunk, neg |-> FALSE]

\* The streams the failing and the short-reading callbacks are tried on: the
\* fault falls in a header, in the fields of ftyp and mvhd, and in the
\* content of a container.
ErrStreams ==
    { Box(24, S_ftyp, FtypBody) \o Box(12, S_free, Zeros(4)),
      Box(112, S_mvhd, MvhdBody(0, 90, 3600) \o Zeros(4)) \o Box(8, S_free, <<>>),
      Box(20, S_moov, Box(24, S_ftyp, S_mp42)) \o Box(8, S_free, <<>>) }

\* The sources of the C API runs: each stream whole, with a callback that
\* fails from some position on, and with a callback that delivers short reads.
HostFiles ==
    {HostSrc(s, FALSE, 0, 0) : s \in Streams}
    \cup {HostSrc(s, TRUE, e, 0) : s \in ErrStreams, e \in 0..MaxErrAt}
    \cup {HostSrc(s, FALSE, 0, c) : s \in ErrStreams, c \in 1..MaxChunk}

\* Streams of the read_box_from_buffer runs only: a file type box in the
\* extended form, track headers with each bit of the flags, and a version 1
\* track header with a width and a height.
WalkStreams ==
    { BoxExt(32, S_ftyp, FtypBody),
      Box(92, S_tkhd, [Tkhd0 EXCEPT ![4] = 1]),
      Box(92, S_tkhd, [Tkhd0 EXCEPT ![4] = 2]),
      Box(92, S_tkhd, [Tkhd0 EXCEPT ![2] = 3, ![4] = 0]),
      Box(92, S_tkhd, [Tkhd0 EXCEPT ![3] = 1, ![4] = 7]),
      Box(104, S_tkhd, TkhdBody(1, 3, 2, 0, 2944, 320 * 65536, 240 * 65536)),
      \* file type boxes that declare less than their two fixed fields take
      Box(8, S_ftyp, <<>>) \o Box(12, S_free, Zeros(4)),
      Box(12, S_ftyp, S_mp42) \o Box(12, S_free, Zeros(4)) }

\* The buffers of the read_box_from_buffer runs: every prefix of every stream.
Buffers ==
    UNION {{SubSeq(s, 1, n) : n \in 0..Len(s)} : s \in Streams \cup WalkStreams}

\* What a successful read_mp4 leaves in the MediaContext.
VideoTrack ==
    [track_type |-> "Video", timescale |-> Some(90), duration |-> Some(3600),
     media_time |-> None, empty_duration |-> None, track_id |-> Some(1),
     data |-> VideoEntry(320, 240), tkhd |-> Tkhd(320 * 65536 + 32768, 240 * 65536)]
AudioTrack ==
    [track_type |-> "Audio", timescale |-> Some(48), duration |-> Some(2944),
     media_time |-> Some(1024), empty_duration |-> Some(500), track_id |-> Some(2),
     data |-> AudioEntry(2, 16, 8000 * 65536 + 1), tkhd |-> NoTkhd]
UnknownTrack ==
    [track_type |-> "Unknown", timescale |-> None, duration |-> None,
     media_time |-> None, empty_duration |-> None, track_id |-> None,
     data |-> NoEntry, tkhd |-> NoTkhd]

ParsedContexts ==
    { [timescale |-> Some(1000),
       tracks |-> <<VideoTrack, AudioTrack,
                    [VideoTrack EXCEPT !.track_id = Some(3),
                                       !.empty_duration = Some(2000)]>>],
      [timescale |-> None,
       tracks |-> <<UnknownTrack, [VideoTrack EXCEPT !.tkhd = NoTkhd],
                    [AudioTrack EXCEPT !.duration = None],
                    [AudioTrack EXCEPT !.data = NoEntry]>>] }

Sinks == {"Ok", "InvalidData", "Unsupported"}

(***************************************************************************)
(* The C API: a host that allocates a parser over its byte source and      *)
(* calls the API in any order, one call at a time.                         *)
(***************************************************************************)
Init ==
    /\ fuzz \in BOOLEAN
    /\ host \in HostFiles
    /\ parser = NoParser
    /\ pc = "idle"
    /\ w = NoWalk
    /\ ret = NoRet

Next ==
    \/ \E ioNull, userdataNull, readNull \in BOOLEAN :
          mp4parse_new(ioNull, userdataNull, readNull)
    \/ \E hnull \in BOOLEAN : mp4parse_free(hnull)
    \/ \E hnull \in BOOLEAN : mp4parse_read(hnull)
    \/ ReadBox
    \/ \E sink \in Sinks, ctx \in ParsedContexts : mp4parse_read_join(sink, ctx)
    \/ \E hnull \in BOOLEAN : mp4parse_get_track_count(hnull)
    \/ \E hnull, onull \in BOOLEAN, track \in 0..MaxTrack :
          mp4parse_get_track_info(hnull, track, onull)
    \/ \E hnull, onull \in BOOLEAN, track \in 0..MaxTrack :
          mp4parse_get_track_audio_info(hnull, track, onull)
    \/ \E hnull, onull \in BOOLEAN, track \in 0..MaxTrack :
          mp4parse_get_track_video_info(hnull, track, onull)

Spec == Init /\ [][Next]_vars

(***************************************************************************)
(* The walker alone: read_box_from_buffer over every buffer.               *)
(***************************************************************************)
WalkInit ==
    /\ fuzz = FALSE
    /\ host \in {HostSrc(b, FALSE, 0, 0) : b \in Buffers}
    /\ parser = NoParser
    /\ pc = "idle"
    /\ w = NoWalk
    /\ ret = NoRet

WalkNext ==
    \/ \E bufNull \in BOOLEAN : read_box_from_buffer(bufNull)
    \/ ReadBox
    \/ read_box_from_buffer_join

WalkSpec == WalkInit /\ [][WalkNext]_vars

(***************************************************************************)
(* Properties of the C API.                                                *)
(***************************************************************************)
CheckedCalls ==
    {"read", "get_track_info", "get_track_audio_info", "get_track_video_info"}

\* mp4parse_read has returned from a call that passed its argument check.
ReadReturned ==
    /\ pc = "idle"
    /\ ret.op = "read"
    /\ ~ret.hnull
    /\ ret.status # "BADARG"

\* C1: once a handle is poisoned, every call of mp4parse_read and of the
\* three queries on it returns MP4PARSE_ERROR_BADARG, for every track index
\* and output pointer, and the poisoned flag stays set for as long as the
\* handle lives.
C1_PoisoningTerminal ==
    [][(pc = "idle" /\ parser.live /\ parser.poisoned)
       => /\ parser'.poisoned
          /\ (ret'.op \in CheckedCalls /\ ~ret'.hnull) => ret'.status = "BADARG"]_vars

\* A query with a good track index and output pointer was refused on a
\* poisoned handle.
C1_Witness ==
    /\ parser.live /\ parser.poisoned
    /\ ret.op = "get_track_video_info"
    /\ ~ret.hnull /\ ~ret.onull /\ ret.track = 0
    /\ ret.status = "BADARG"

\* C2: when mp4parse_read returns from a call on a non-null handle that was
\* not poisoned, the handle is poisoned exactly when the status is not
\* MP4PARSE_OK.
C2_PoisonedIffFailed ==
    ReadReturned
    => /\ ret.status \in {"OK", "INVALID", "UNSUPPORTED", "EOF", "IO", "ASSERT"}
       /\ parser.poisoned <=> (ret.status # "OK")

\* A read that succeeded: the handle is Parsed and holds tracks.
C2_Witness ==
    /\ ReadReturned
    /\ ret.status = "OK"
    /\ ~parser.poisoned
    /\ Len(parser.context.tracks) > 0

\* C3: not built for fuzzing, a panic of the box walk inside mp4parse_read
\* does not reach the caller: the call returns MP4PARSE_ERROR_ASSERT and the
\* handle is poisoned.
C3_FaultContainment ==
    (~fuzz /\ ret.op = "read" /\ ~ret.hnull /\ ret.status # "BADARG"
     /\ w.res \in {"panic", "underflow"})
    => /\ pc # "aborted"
       /\ pc = "idle" => (ret.status = "ASSERT" /\ parser.poisoned)

\* The walk panicked and mp4parse_read returned to its caller.
C3_Witness ==
    /\ ~fuzz
    /\ ReadReturned
    /\ w.res = "panic"
    /\ ret.status = "ASSERT"
    /\ parser.poisoned

\* C4: when the stream ends inside a box, after its header was decoded and
\* before its declared end, mp4parse_read returns MP4PARSE_ERROR_EOF.
C4_EofInsideBoxIsError ==
    (ReadReturned /\ w.short /\ ~w.cbneg) => ret.status = "EOF"

\* C5: when the host callback returned a negative value during the call,
\* mp4parse_read returns MP4PARSE_ERROR_IO and the handle is poisoned.
C5_CallbackErrorIsIo ==
    (ReadReturned /\ w.cbneg) => (ret.status = "IO" /\ parser.poisoned)

\* C10: a box header with an invalid size (a 32-bit size of 0 or 2..7, an
\* extended size below 16) makes read_box_header fail with an error value
\* that mp4parse_read reports as MP4PARSE_ERROR_INVALID.
InvalidSize(buf, pos) ==
    /\ Len(buf) >= pos + 8
    /\ \/ BigEndian(SubSeq(buf, pos + 1, pos + 4)) = 0
       \/ BigEndian(SubSeq(buf, pos + 1, pos + 4)) \in 2..7
       \/ /\ BigEndian(SubSeq(buf, pos + 1, pos + 4)) = 1
          /\ Len(buf) >= pos + 16
          /\ BigEndian(SubSeq(buf, pos + 9, pos + 16)) < 16

C10_InvalidSizeIsInvalid ==
    (/\ ReadReturned
     /\ ~w.cbneg
     /\ w.last.depth \in 1..Len(w.stack)
     /\ w.last.stage = "header"
     /\ InvalidSize(w.stack[w.last.depth].src.buf, w.last.start))
    => (w.res # "panic" /\ ret.status = "INVALID")

(***************************************************************************)
(* Properties of the box walk.                                             *)
(***************************************************************************)
FixedTypes == {S_ftyp, S_moov, S_mvhd, S_trak, S_tkhd}

\* C6: the first error of the walk other than a clean end of stream ends
\* the walk, and is the walk's result.
C6_FailFast ==
    w.err # "none" => w.res = w.err

\* C7: while a container's children are walked, the enclosing stream stays
\* where the container's content ended, which is not past the container's
\* declared end; the children are read from a cursor of their own over the
\* container's size - offset content bytes (those of them the stream held),
\* which starts at position 0.
ContainerIsolated(outer, fr) ==
    /\ outer.src.pos <= fr.start + fr.h.size
    /\ outer.src.pos = fr.start + fr.h.offset + Len(fr.src.buf)
    /\ Len(fr.src.buf) = Min(fr.h.size - fr.h.offset,
                             Len(outer.src.buf) - (fr.start + fr.h.offset))
    /\ fr.src.buf = SubSeq(outer.src.buf, fr.start + fr.h.offset + 1,
                           fr.start + fr.h.offset + Len(fr.src.buf))
    /\ fr.src.kind = "cursor"

C7_ContainerIsolation ==
    /\ \A i \in 2..Len(w.stack) : ContainerIsolated(w.stack[i - 1], w.stack[i])
    /\ (w.last.kind = "container" /\ w.last.res = "ok")
       => w.stack[Len(w.stack)].src.pos = 0

\* A child that declares more than its container holds was read inside a
\* container that other bytes follow.
C7_Witness ==
    /\ Len(w.stack) >= 2
    /\ w.last.depth = 2
    /\ w.last.stage = "content"
    /\ w.last.h.size > w.stack[2].h.size
    /\ Len(w.stack[1].src.buf) > w.stack[2].start + w.stack[2].h.size

\* C8: after read_box handled an ftyp, mvhd or tkhd box without an error,
\* the stream is at box start + size.
C8_LeafConsumesDeclaredSize ==
    (w.last.kind = "leaf" /\ w.last.res = "ok")
    => w.last.end = w.last.start + w.last.h.size

\* C9: for a box of any other type than ftyp, moov, mvhd, trak and tkhd,
\* read_box skips size - offset bytes after the header and leaves the stream
\* at box start + size.
C9_UnknownBoxSkipped ==
    (w.last.stage = "content" /\ fourcc_to_string(w.last.h.name) \notin FixedTypes)
    => /\ w.last.kind = "skip"
       /\ w.last.res = "ok"
       /\ w.last.end = w.last.start + w.last.h.size

\* A box of type free was skipped inside two containers.
C9_Witness ==
    /\ w.last.kind = "skip"
    /\ fourcc_to_string(w.last.h.name) = S_free
    /\ w.last.depth = 3
    /\ w.last.end = w.last.start + 12

\* The stream the last read_box call read from is still open.
LastStreamOpen == w.last.depth \in 1..Len(w.stack)

\* The bytes of that stream, and the 32-bit size field of the last header.
LastBuf == w.stack[w.last.depth].src.buf
LastSizeField == BigEndian(SubSeq(LastBuf, w.last.start + 1, w.last.start + 4))

\* C11: every header read_box_header returns has size >= 8 and
\* offset <= size; its offset is 8 in the normal form, and 16 with
\* size >= 16 in the extended form (size field 1).
C11_HeaderInvariant ==
    w.last.stage = "content"
    => /\ w.last.h.size >= 8
       /\ w.last.h.offset <= w.last.h.size
       /\ w.last.h.offset \in {8, 16}
       /\ w.last.h.offset = 16 => w.last.h.size >= 16
       /\ LastStreamOpen => (w.last.h.offset = 16 <=> LastSizeField = 1)

\* A header in the extended form was decoded.
C11_Witness ==
    /\ w.last.stage = "content"
    /\ LastStreamOpen
    /\ LastSizeField = 1
    /\ w.last.h.offset = 16
    /\ w.last.h.size = 20

\* The last box is whole in its stream, which is still open.
LastBoxWhole ==
    /\ w.last.stage = "content"
    /\ LastStreamOpen
    /\ Len(LastBuf) >= w.last.start + w.last.h.size

LastName == fourcc_to_string(w.last.h.name)

\* The byte at offset k (from 1) of the content of the last box.
LastContent(k) == LastBuf[w.last.start + w.last.h.offset + k]

\* C12: an mvhd or tkhd box with a version other than 0 and 1 makes
\* read_mvhd / read_tkhd return an error to the walker; it does not panic.
C12_UnknownVersionIsError ==
    (/\ LastBoxWhole
     /\ LastName \in {S_mvhd, S_tkhd}
     /\ w.last.h.size - w.last.h.offset >= 4
     /\ LastContent(1) \notin {0, 1})
    => w.last.res \in {"eof", "io"}

\* C13: read_ftyp fails when the content bytes after the major brand and
\* the minor version are not a multiple of 4.
C13_FtypRemainderIsError ==
    (/\ LastBoxWhole
     /\ LastName = S_ftyp
     /\ w.last.h.size - w.last.h.offset >= 8
     /\ (w.last.h.size - w.last.h.offset - 8) % 4 # 0)
    => w.last.res # "ok"

\* The n-byte field that follows the first k content bytes of the last box.
LastField(k, n) ==
    BigEndian(SubSeq(LastBuf, w.last.start + w.last.h.offset + k + 1,
                     w.last.start + w.last.h.offset + k + n))

\* In a track header of the last box's version: the bytes before the first
\* reserved field (version and flags, the two times, the track id), and the
\* width of the duration.
TkhdLead == 4 + (IF LastContent(1) = 1 THEN 16 ELSE 8) + 4
TkhdDurationLen == IF LastContent(1) = 1 THEN 8 ELSE 4

\* C14: read_tkhd rejects a track header in which the reserved field after
\* the track id, or one of the two reserved fields after the duration, is
\* not zero.
C14_TkhdReservedRejected ==
    (/\ LastBoxWhole
     /\ LastName = S_tkhd
     /\ w.last.h.size - w.last.h.offset >= TkhdLead + 4 + TkhdDurationLen + 8
     /\ LastContent(1) \in {0, 1}
     /\ \/ LastField(TkhdLead, 4) # 0
        \/ LastField(TkhdLead + 4 + TkhdDurationLen, 4) # 0
        \/ LastField(TkhdLead + 4 + TkhdDurationLen + 4, 4) # 0)
    => w.last.res # "ok"

(***************************************************************************)
(* Properties of the queries and of the handle's life.                     *)
(***************************************************************************)
QueryCalls == {"get_track_info", "get_track_audio_info", "get_track_video_info"}

\* A query has returned from a call with a handle that is not poisoned and
\* an output structure.
QueryReturned ==
    /\ pc = "idle"
    /\ ret.op \in QueryCalls
    /\ ~ret.hnull /\ ~ret.onull
    /\ parser.live /\ ~parser.poisoned

\* C15: a query with a track index at or beyond the track count returns
\* MP4PARSE_ERROR_BADARG and leaves the output structure as the caller
\* passed it.
C15_OutOfRangeTrack ==
    (QueryReturned /\ ret.track >= Len(parser.context.tracks))
    => (ret.status = "BADARG" /\ ret.outv = DummyOut)

\* The audio query was refused for the index just past the last track of a
\* parsed stream.
C15_Witness ==
    /\ QueryReturned
    /\ ret.op = "get_track_audio_info"
    /\ Len(parser.context.tracks) > 0
    /\ ret.track = Len(parser.context.tracks)
    /\ ret.status = "BADARG"

\* C16: mp4parse_new returns null, and allocates nothing, exactly when the
\* descriptor pointer, its userdata or its read callback is null; otherwise
\* it returns a handle that is not poisoned and holds an empty MediaContext
\* and the descriptor.
C16_NewValidatesDescriptor ==
    [][\A ioNull, userdataNull, readNull \in BOOLEAN :
         mp4parse_new(ioNull, userdataNull, readNull)
         => IF ioNull \/ userdataNull \/ readNull
            THEN /\ ret'.status = "null"
                 /\ parser' = parser
            ELSE /\ ret'.status = "handle"
                 /\ parser'.live
                 /\ ~parser'.poisoned
                 /\ parser'.context = EmptyContext
                 /\ Len(parser'.context.tracks) = 0
                 /\ parser'.io = HostIo
                 /\ parser'.made = parser.made + 1]_vars

\* mp4parse_new has returned a handle.
C16_Witness ==
    /\ ret.op = "new"
    /\ ret.status = "handle"
    /\ parser.live
    /\ ~parser.poisoned
    /\ Len(parser.context.tracks) = 0

\* A query has returned from a call with a track index in range.
QueryInRange == QueryReturned /\ ret.track < Len(parser.context.tracks)

\* The track the last query asked for.
QueryTrack == parser.context.tracks[ret.track + 1]

\* A field mp4parse_get_track_info needs is absent.
FieldsAbsent ==
    \/ ~parser.context.timescale.some
    \/ ~QueryTrack.timescale.some
    \/ ~QueryTrack.duration.some
    \/ ~QueryTrack.track_id.some

\* What the audio and the video query need of the track.
AudioComplete ==
    QueryTrack.track_type = "Audio" /\ QueryTrack.data.kind = "Audio"
VideoComplete ==
    /\ QueryTrack.track_type = "Video"
    /\ QueryTrack.data.kind = "Video"
    /\ QueryTrack.tkhd.some

\* The part of C17 on the audio and video queries and on Unknown tracks.
TypedQueryRejections ==
    /\ (ret.op = "get_track_audio_info" /\ ~AudioComplete) => ret.status = "INVALID"
    /\ (ret.op = "get_track_video_info" /\ ~VideoComplete) => ret.status = "INVALID"
    /\ QueryTrack.track_type = "Unknown" => ret.status # "OK"

\* C17 as stated: mp4parse_get_track_info returns MP4PARSE_ERROR_INVALID
\* whenever the global timescale or the track's timescale, duration or id is
\* absent; the audio and video queries return INVALID unless the track has
\* their type, a sample entry of their type and (video) a track header; an
\* Unknown track never yields MP4PARSE_OK.
C17_AsStated ==
    /\ ret.op \in QueryCalls => pc # "aborted"
    /\ QueryInRange
       => /\ (ret.op = "get_track_info" /\ FieldsAbsent) => ret.status = "INVALID"
          /\ TypedQueryRejections

\* C17, amended: mp4parse_get_track_info returns MP4PARSE_ERROR_UNSUPPORTED
\* for a track of type Unknown, whatever fields it lacks, and INVALID for a
\* Video or Audio track when a needed field is absent; the rest as stated.
C17_QueryRejections ==
    /\ ret.op \in QueryCalls => pc # "aborted"
    /\ QueryInRange
       => /\ (ret.op = "get_track_info" /\ QueryTrack.track_type = "Unknown")
             => ret.status = "UNSUPPORTED"
          /\ (ret.op = "get_track_info" /\ QueryTrack.track_type # "Unknown"
              /\ FieldsAbsent) => ret.status = "INVALID"
          /\ TypedQueryRejections

\* mp4parse_get_track_info was asked for an Unknown track without a
\* timescale, duration or id.
C17_Witness ==
    /\ QueryInRange
    /\ ret.op = "get_track_info"
    /\ QueryTrack.track_type = "Unknown"
    /\ FieldsAbsent
    /\ ret.status = "UNSUPPORTED"

\* Ticks at a timescale in milliseconds, 0 for an absent value.
MsOrZero(time, scale) == IF time.some THEN (time.v * 1000) \div scale.v ELSE 0

\* C18: when mp4parse_get_track_info returns MP4PARSE_OK, media_time is the
\* track's media time in ms at the track's timescale minus its empty
\* duration in ms at the global timescale (an absent one counts 0), and
\* duration is the track's duration in ms at the track's timescale.
C18_TrackInfoTimes ==
    (QueryInRange /\ ret.op = "get_track_info" /\ ret.status = "OK")
    => /\ ret.outv.media_time =
              MsOrZero(QueryTrack.media_time, QueryTrack.timescale)
              - MsOrZero(QueryTrack.empty_duration, parser.context.timescale)
       /\ ret.outv.duration = MsOrZero(QueryTrack.duration, QueryTrack.timescale)
       /\ ret.outv.track_id = QueryTrack.track_id.v

\* A track with a media time and an empty duration whose two timescales
\* differ was reported.
C18_Witness ==
    /\ QueryInRange
    /\ ret.op = "get_track_info"
    /\ ret.status = "OK"
    /\ QueryTrack.media_time.some
    /\ QueryTrack.empty_duration.some
    /\ QueryTrack.timescale # parser.context.timescale
    /\ ret.outv.media_time = 20833

\* C19: mp4parse_free with a null handle, and mp4parse_get_track_count with
\* a null or a poisoned handle, fail an assertion and do not return.
C19_FatalMisuse ==
    /\ (ret.op = "free" /\ ret.hnull)
       => (pc = "aborted" /\ ret.status = "none")
    /\ (ret.op = "get_track_count" /\ (ret.hnull \/ parser.poisoned))
       => (pc = "aborted" /\ ret.status = "none")

\* mp4parse_get_track_count was called with a handle that a failed read had
\* poisoned.
C19_Witness ==
    /\ ret.op = "get_track_count"
    /\ ~ret.hnull
    /\ parser.live /\ parser.poisoned
    /\ pc = "aborted"

\* C20: mp4parse_read with a null handle, and each query with a null handle
\* or a null output pointer, return MP4PARSE_ERROR_BADARG, whatever the
\* other arguments are; nothing is written through the output pointer.
C20_NullArguments ==
    /\ (ret.op = "read" /\ ret.hnull)
       => (ret.status = "BADARG" /\ pc = "idle")
    /\ (ret.op \in QueryCalls /\ (ret.hnull \/ ret.onull))
       => (ret.status = "BADARG" /\ ret.outv = DummyOut /\ pc = "idle")

\* A query with a track index in range on a parsed handle was refused for
\* its null output pointer.
C20_Witness ==
    /\ ret.op = "get_track_info"
    /\ ~ret.hnull /\ ret.onull
    /\ parser.live /\ ~parser.poisoned
    /\ ret.track < Len(parser.context.tracks)
    /\ ret.status = "BADARG"

(***************************************************************************)
(* Properties of the leaf parsers' values.                                 *)
(***************************************************************************)
\* The brands the content of the last box holds after the major brand and
\* the minor version.
FtypBrandCount == (w.last.h.size - w.last.h.offset - 8) \div 4

\* C21: a well-formed ftyp box (its content after the major brand and the
\* minor version is a whole number of brands) is read with its major brand,
\* its minor version and exactly (size - offset - 8) / 4 compatible brands
\* in stream order, in the normal form (offset 8) and in the extended form
\* (offset 16).
C21_FtypBrands ==
    (/\ LastBoxWhole
     /\ LastName = S_ftyp
     /\ w.last.h.size - w.last.h.offset >= 8
     /\ (w.last.h.size - w.last.h.offset - 8) % 4 = 0)
    => /\ w.last.res = "ok"
       /\ w.last.val.major_brand = LastField(0, 4)
       /\ w.last.val.minor_version = LastField(4, 4)
       /\ Len(w.last.val.compatible_brands) = FtypBrandCount
       /\ \A i \in 1..FtypBrandCount :
              w.last.val.compatible_brands[i] = LastField(4 + 4 * i, 4)

\* C21 in the normal form only, where read_ftyp agrees with the claim.
C21_NormalForm == w.last.h.offset = 8 => C21_FtypBrands

\* The big-endian value of the n bytes that follow the first k bytes of the
\* last box's header.
LastHeaderField(k, n) ==
    BigEndian(SubSeq(LastBuf, w.last.start + k + 1, w.last.start + k + n))

\* C22: read_box_header decodes a 4-byte big-endian size and a 4-byte
\* big-endian type.  A size field other than 1 is the size, with offset 8
\* and 8 bytes consumed; a size field of 1 is followed by the 8-byte
\* big-endian size, with offset 16 and 16 bytes consumed.  (The bytes
\* consumed show in a skipped box, whose content adds size - offset to them.)
C22_HeaderDecoding ==
    (w.last.stage = "content" /\ LastStreamOpen)
    => /\ w.last.h.name = LastHeaderField(4, 4)
       /\ LastSizeField # 1
          => /\ w.last.h.size = LastSizeField
             /\ w.last.h.offset = 8
             /\ w.last.kind = "skip"
                => w.last.end - (w.last.h.size - w.last.h.offset)
                   = w.last.start + 8
       /\ LastSizeField = 1
          => /\ w.last.h.size = LastHeaderField(8, 8)
             /\ w.last.h.offset = 16
             /\ w.last.kind = "skip"
                => w.last.end - (w.last.h.size - w.last.h.offset)
                   = w.last.start + 16

\* The header of test_read_box_header_long was decoded: type "long", size
\* 4096 from the 64-bit field, offset 16.
C22_Witness ==
    /\ w.last.stage = "content"
    /\ LastStreamOpen
    /\ LastBuf = <<0, 0, 0, 1>> \o S_long \o <<0, 0, 0, 0, 0, 0, 16, 0>>
    /\ fourcc_to_string(w.last.h.name) = S_long
    /\ w.last.h.size = 4096
    /\ w.last.h.offset = 16
    /\ w.last.end = 4096

\* C23: the version selects the field widths of mvhd and tkhd.  Version 0:
\* the two times take 8 bytes and the duration is a 32-bit field; version 1:
\* the times take 16 bytes and the duration is a 64-bit field.  read_mvhd
\* then skips exactly 80 bytes; read_tkhd skips exactly 44 bytes (after its
\* two reserved fields) before the width and the height, which it returns
\* as the raw 32-bit values.  Offsets are from the start of the content.
C23_VersionWidths ==
    (LastBoxWhole /\ w.last.kind = "leaf" /\ w.last.res = "ok")
    => /\ (LastName = S_mvhd /\ LastContent(1) = 0)
          => /\ w.last.val.timescale = LastField(12, 4)
             /\ w.last.val.duration = LastField(16, 4)
             /\ w.last.end = w.last.start + w.last.h.offset + 20 + 80
       /\ (LastName = S_mvhd /\ LastContent(1) = 1)
          => /\ w.last.val.timescale = LastField(20, 4)
             /\ w.last.val.duration = LastField(24, 8)
             /\ w.last.end = w.last.start + w.last.h.offset + 32 + 80
       /\ (LastName = S_tkhd /\ LastContent(1) = 0)
          => /\ w.last.val.track_id = LastField(12, 4)
             /\ w.last.val.duration = LastField(20, 4)
             /\ w.last.val.width = LastField(32 + 44, 4)
             /\ w.last.val.height = LastField(32 + 44 + 4, 4)
             /\ w.last.end = w.last.start + w.last.h.offset + 32 + 44 + 8
       /\ (LastName = S_tkhd /\ LastContent(1) = 1)
          => /\ w.last.val.track_id = LastField(20, 4)
             /\ w.last.val.duration = LastField(28, 8)
             /\ w.last.val.width = LastField(44 + 44, 4)
             /\ w.last.val.height = LastField(44 + 44 + 4, 4)
             /\ w.last.end = w.last.start + w.last.h.offset + 44 + 44 + 8

\* A version 1 track header was read: 64-bit duration, width and height
\* after the wider fields.
C23_Witness ==
    /\ LastBoxWhole
    /\ LastName = S_tkhd
    /\ LastContent(1) = 1
    /\ w.last.res = "ok"
    /\ w.last.val.track_id = 2
    /\ w.last.val.duration = 2944
    /\ w.last.val.width = 320 * 65536
    /\ w.last.val.height = 240 * 65536
    /\ w.last.end = w.last.start + 8 + 96

\* The three flag bytes of the last box, packed big-endian.
LastFlags == LastContent(2) * 65536 + LastContent(3) * 256 + LastContent(4)

\* C24: read_tkhd sets enabled exactly when bits 0 and 1 of the flags are
\* both set, the flags being the three bytes after the version packed
\* big-endian.
C24_TkhdEnabled ==
    (LastBoxWhole /\ LastName = S_tkhd /\ w.last.res = "ok")
    => (w.last.val.enabled <=> /\ LastFlags % 2 = 1
                               /\ (LastFlags \div 2) % 2 = 1)

\* A track header was read with bit 0 of its flags set and bit 1 clear: it
\* is not enabled.
C24_Witness ==
    /\ LastBoxWhole
    /\ LastName = S_tkhd
    /\ w.last.res = "ok"
    /\ LastFlags = 1
    /\ ~w.last.val.enabled

\* v is the integer part of the 16.16 fixed-point value fixed.
IntegerPart(v, fixed) == v * 65536 <= fixed /\ fixed < (v + 1) * 65536

\* C25: where the audio and the video query return MP4PARSE_OK, sample_rate
\* is the stored 16.16 sample rate shifted right by 16 and display_width and
\* display_height are the track header's width and height shifted right by
\* 16 (the integer part, the fraction dropped); image_width, image_height,
\* channels and bit_depth are the sample entry's values unchanged.
C25_FixedPointShift ==
    /\ (QueryInRange /\ ret.op = "get_track_audio_info" /\ ret.status = "OK")
       => /\ IntegerPart(ret.outv.sample_rate, QueryTrack.data.samplerate)
          /\ ret.outv.channels = QueryTrack.data.channelcount
          /\ ret.outv.bit_depth = QueryTrack.data.samplesize
    /\ (QueryInRange /\ ret.op = "get_track_video_info" /\ ret.status = "OK")
       => /\ IntegerPart(ret.outv.display_width, QueryTrack.tkhd.width)
          /\ IntegerPart(ret.outv.display_height, QueryTrack.tkhd.height)
          /\ ret.outv.image_width = QueryTrack.data.width
          /\ ret.outv.image_height = QueryTrack.data.height

\* The video query returned OK for a track whose header width is 320.5 in
\* 16.16 fixed point: display_width is 320.
C25_Witness ==
    /\ QueryInRange
    /\ ret.op = "get_track_video_info"
    /\ ret.status = "OK"
    /\ QueryTrack.tkhd.width = 320 * 65536 + 32768
    /\ ret.outv.display_width = 320
    /\ ret.outv.display_height = 240
    /\ ret.outv.image_width = 320

(***************************************************************************)
(* Properties of the entry points and their workers.                       *)
(***************************************************************************)
\* C26: read_box_from_buffer returns false without parsing when the buffer
\* is null or shorter than 8 bytes.  Otherwise it runs the walk in a worker
\* it joins, and returns true when the walk completed or stopped at the end
\* of the input, false when it hit another error or panicked; the caller is
\* never aborted.
C26_BufferEntry ==
    ret.op = "read_box_from_buffer"
    => /\ pc \in {"idle", "walk"}
       /\ (ret.hnull \/ Len(host.buf) < 8)
          => pc = "idle" /\ ret.status = "false"
       /\ Len(host.buf) < 8 => w = NoWalk
       /\ pc = "walk" => w.entry = "buffer" /\ ret.status = "running"
       /\ (~ret.hnull /\ Len(host.buf) >= 8 /\ pc = "idle")
          => /\ w.entry = "buffer"
             /\ w.res # "running"
             /\ w.res \in {"ok", "eof"} => ret.status = "true"
             /\ w.res \in {"io", "panic"} => ret.status = "false"

\* A walk over a buffer panicked in its worker and the call returned false.
C26_Witness ==
    /\ ret.op = "read_box_from_buffer"
    /\ ~ret.hnull
    /\ pc = "idle"
    /\ w.res = "panic"
    /\ ret.status = "false"

\* A walk over a buffer stopped at the end of the input inside a box and
\* the call returned true.
C26_StoppedAtEnd ==
    /\ ret.op = "read_box_from_buffer"
    /\ pc = "idle"
    /\ w.res = "eof"
    /\ w.last.stage = "content"
    /\ ret.status = "true"

\* The worker of an mp4parse_read call has been spawned and has not ended.
WorkerRunning == pc = "walk" /\ w.entry = "read" /\ w.res = "running"

\* C27: mp4parse_read is synchronous with respect to its worker.  The worker
\* is spawned and joined inside the call: while it runs the caller does not
\* return and touches neither the context, the io object nor the poisoned
\* flag; the poisoned flag is written only once the worker has ended; and no
\* worker runs when the call has returned.
C27_WorkerJoined ==
    /\ [](pc # "walk" => w.res # "running")
    /\ [][/\ WorkerRunning
             => /\ pc' = "walk"
                /\ parser' = parser
                /\ host' = host
                /\ ret' = ret
          /\ (pc = "walk" /\ w.entry = "read" /\ parser' # parser)
             => /\ w.res # "running"
                /\ w' = w
                /\ pc' = "idle"]_vars

\* A read whose worker panicked has returned: the worker has ended, the
\* handle is poisoned.
C27_Witness ==
    /\ ~fuzz
    /\ pc = "idle"
    /\ ret.op = "read"
    /\ ret.status = "ASSERT"
    /\ w.entry = "read"
    /\ w.res = "panic"
    /\ parser.poisoned

\* An mp4parse_read call on a non-null handle that is not poisoned is in
\* progress.
ReadInProgress ==
    /\ pc = "walk"
    /\ w.entry = "read"
    /\ ret.op = "read"
    /\ ~ret.hnull
    /\ parser.live
    /\ ~parser.poisoned

\* The calls that never reach the host's callback.
CallbackFreeCalls ==
    {"new", "free", "get_track_count", "get_track_info",
     "get_track_audio_info", "get_track_video_info"}

\* C28: the host's read callback is invoked only while an mp4parse_read call
\* on a non-null handle that is not poisoned is in progress.  The callback
\* is what reads the host's source: every step that reads from it (a step
\* of the walk of mp4parse_read) or that moves the source is a step of such
\* a call; mp4parse_new, mp4parse_free, the queries and mp4parse_read on a
\* null or poisoned handle leave the walk and the source as they were.
C28_CallbackOnlyInRead ==
    [][/\ (w'.entry = "read" /\ w' # w)
          => \/ ReadInProgress
             \/ pc = "idle" /\ ReadInProgress'
       /\ host' # host => ReadInProgress
       /\ (\/ ret'.op \in CallbackFreeCalls
           \/ ret'.op = "read" /\ ret'.status = "BADARG")
          => w' = w /\ host' = host]_vars

\* mp4parse_read was refused on a poisoned handle whose source had been read
\* only in part: the source stands where the failed read left it.
C28_Witness ==
    /\ pc = "idle"
    /\ ret.op = "read"
    /\ ~ret.hnull
    /\ ret.status = "BADARG"
    /\ parser.live
    /\ parser.poisoned
    /\ host.pos > 0
    /\ host.pos = w.stack[1].src.pos

(***************************************************************************)
(* Termination: both entry points, with a worker that is scheduled until   *)
(* it ends and a join that returns once it has.                            *)
(***************************************************************************)
TerminationNext ==
    \/ \E ioNull, userdataNull, readNull \in BOOLEAN :
          mp4parse_new(ioNull, userdataNull, readNull)
    \/ \E hnull \in BOOLEAN : mp4parse_read(hnull)
    \/ ReadBox
    \/ \E sink \in Sinks, ctx \in ParsedContexts : mp4parse_read_join(sink, ctx)
    \/ \E bufNull \in BOOLEAN : read_box_from_buffer(bufNull)
    \/ read_box_from_buffer_join

\* ENABLED <<ReadBox>>_vars, written out: the worker has a read_box call to
\* make, and the call changes the walk.
ReadBoxEnabled ==
    /\ pc = "walk"
    /\ w.res = "running"
    /\ WalkStep(w, Len(w.stack), w.stack[Len(w.stack)],
                read_box(w.stack[Len(w.stack)].src)) # w

\* WF_vars(ReadBox) with its ENABLED written out: a spawned worker runs.
WorkerFairness == []<>(~ReadBoxEnabled) \/ []<><<ReadBox>>_vars

TerminationSpec ==
    /\ Init
    /\ [][TerminationNext]_vars
    /\ WorkerFairness
    /\ WF_vars(\E sink \in Sinks, ctx \in ParsedContexts :
                   mp4parse_read_join(sink, ctx))
    /\ WF_vars(read_box_from_buffer_join)

\* C29: the walk terminates on every finite input.  A read_box step that
\* does not fail consumes at least the 8 bytes of a header; the buffer of a
\* nested walk is shorter, by a header at least, than the region of the
\* stream it was taken from, so the depth of the recursion is bounded by the
\* length of the input; and every call of mp4parse_read and of
\* read_box_from_buffer returns (or, built for fuzzing, panics).
C29_WalkTerminates ==
    /\ [](w.last.res = "ok" => w.last.end >= w.last.start + 8)
    /\ [](\A i \in 2..Len(w.stack) :
              Len(w.stack[i].src.buf) + 8
                  <= Len(w.stack[i - 1].src.buf) - w.stack[i].start)
    /\ [](Len(w.stack) >= 1
          => 8 * (Len(w.stack) - 1) <= Len(w.stack[1].src.buf))
    /\ (pc = "walk") ~> (pc # "walk")

\* The walk over the whole movie (ftyp, moov with mvhd and trak with tkhd,
\* free: 248 bytes) has ended and mp4parse_read has returned.
C29_Witness ==
    /\ pc = "idle"
    /\ w.res \in {"ok", "eof"}
    /\ w.moov
    /\ Len(w.stack) = 1
    /\ w.stack[1].src.pos = 248
    /\ ret.op = "read"
    /\ ret.status = "OK"

\* C30: whenever one of the three queries returns a status other than
\* MP4PARSE_OK (BADARG, INVALID or UNSUPPORTED), no field of the caller's
\* output structure has been modified.
C30_OutputUntouchedOnError ==
    (pc = "idle" /\ ret.op \in QueryCalls /\ ret.status # "OK")
    => ret.outv = DummyOut

\* C30 for the audio and the video query, which write after their last check.
C30_TypedQueries ==
    ret.op \in {"get_track_audio_info", "get_track_video_info"}
    => C30_OutputUntouchedOnError

(***************************************************************************)
(* Properties that compare two runs, and of the size arithmetic.           *)
(***************************************************************************)
\* The host's source as it stood before the last read_box call on it, with
\* a callback that delivers every byte asked for.
LastSourceUnchunked ==
    [w.stack[1].src EXCEPT !.pos = w.last.start, !.neg = FALSE, !.chunk = 0]

\* The last read_box call read the host's source, whose callback does not
\* fail.
LastReadOfHost ==
    /\ w.entry = "read"
    /\ w.last.depth = 1
    /\ w.last.stage # "none"
    /\ ~w.stack[1].src.err

\* C31: the outcome of a parse depends on the bytes delivered, not on how
\* the source chunks them: read_box over a source that returns fewer bytes
\* than asked for (at least 1) per call ends as it does over a source that
\* returns the same bytes whole, with the same decoded box.
C31_ChunkingIndependent ==
    LastReadOfHost
    => /\ read_box(LastSourceUnchunked).res = w.last.res
       /\ read_box(LastSourceUnchunked).val = w.last.val
       /\ read_box(LastSourceUnchunked).f.pos = w.last.end

\* C31 for the boxes whose fields are all read with read_u32 (read_full
\* asks again after a short read): ftyp, the containers, skipped boxes.
C31_ExceptSkipsInLeaves ==
    (LastReadOfHost /\ LastName \notin {S_mvhd, S_tkhd})
    => C31_ChunkingIndependent

(***************************************************************************)
(* The parsers called directly, the way test_read_ftyp calls them:         *)
(* read_box_header on a Cursor over the buffer, then read_ftyp on the same *)
(* Cursor with the header it returned.                                     *)
(***************************************************************************)
\* The record of a direct call that returned r for the header h.
DirectCall(r, h, kind, stage) ==
    [NoWalk EXCEPT
     !.entry = "test",
     !.res = IF r.res = "ok" /\ stage = "content" /\ kind = "none"
             THEN "running" ELSE r.res,
     !.stack = << Frame(r.rd.src, h, 0) >>,
     !.last = [depth |-> 1, start |-> 0, len |-> Len(r.rd.src.buf), h |-> h,
               kind |-> kind, stage |-> stage, res |-> r.res,
               end |-> r.rd.src.pos, val |-> r.val]]

\* let header = read_box_header(&mut stream)
test_read_box_header ==
    /\ pc = "idle"
    /\ w = NoWalk
    /\ pc' = "test"
    /\ w' = With(read_box_header(Direct(Cursor(host.buf))), LAMBDA hr :
            IF hr.res = "ok"
            THEN DirectCall([hr EXCEPT !.val = 0], hr.val, "none", "content")
            ELSE DirectCall([hr EXCEPT !.val = 0], NoHeader, "none", "header"))
    /\ UNCHANGED <<fuzz, host, parser, ret>>

\* let parsed = read_ftyp(&mut stream, &header), for a header of type ftyp
test_read_ftyp ==
    /\ pc = "test"
    /\ w.res = "running"
    /\ fourcc_to_string(w.last.h.name) = S_ftyp
    /\ pc' = "idle"
    /\ w' = DirectCall(read_ftyp(Direct(w.stack[1].src), w.last.h), w.last.h,
                       "leaf", "content")
    /\ UNCHANGED <<fuzz, host, parser, ret>>

DirectNext ==
    \/ WalkNext
    \/ test_read_box_header
    \/ test_read_ftyp

DirectSpec == WalkInit /\ [][DirectNext]_vars

\* C32: size arithmetic on an accepted header never wraps.  For every
\* header read_box_header accepts, size - offset (the length limit, recurse
\* and skip_box_content use) is not below 0; read_ftyp computes
\* size - 8 - 8 without going below 0, also for 8 <= size < 16; and an
\* ftyp box that is too short for its major brand and minor version is
\* reported as an error.
C32_SizeArithmeticSafe ==
    /\ w.last.stage = "content" => w.last.h.size - w.last.h.offset >= 0
    /\ w.last.res # "underflow"
    /\ (/\ w.last.kind = "leaf"
        /\ fourcc_to_string(w.last.h.name) = S_ftyp
        /\ w.last.h.size - w.last.h.offset < 8)
       => w.last.res \in {"eof", "io"}

\* C32 for the boxes read_box hands to read_ftyp: the Take of size - offset
\* bytes ends the two fixed fields before the subtraction is reached.
C32_ThroughReadBox == w.entry = "buffer" => C32_SizeArithmeticSafe

\* read_box met an ftyp box of size 12 and read_ftyp returned an error.
C32_ShortFtypInWalk ==
    /\ w.entry = "buffer"
    /\ w.last.kind = "leaf"
    /\ fourcc_to_string(w.last.h.name) = S_ftyp
    /\ w.last.h.size = 12
    /\ w.last.res = "eof"

(***************************************************************************)
(* Properties of the queries as a whole.                                   *)
(***************************************************************************)
\* What the query the last call made returns for the handle as it is now.
QueryAgain ==
    IF ret.op = "get_track_info"
    THEN get_track_info(parser, ret.hnull, ret.track, ret.onull, DummyOut)
    ELSE IF ret.op = "get_track_audio_info"
    THEN get_track_audio_info(parser, ret.hnull, ret.track, ret.onull, DummyOut)
    ELSE get_track_video_info(parser, ret.hnull, ret.track, ret.onull, DummyOut)

\* C33: the four queries are read-only on the handle.  A call of
\* mp4parse_get_track_count, mp4parse_get_track_info,
\* mp4parse_get_track_audio_info or mp4parse_get_track_video_info leaves
\* the poisoned flag, the MediaContext and the stored I/O descriptor (the
\* whole handle), the host's source and the last walk unchanged, whatever
\* it returns; so the same query with the same arguments, made again on the
\* handle as the call left it, gives the same status and the same output.
C33_QueriesReadOnly ==
    /\ [][(pc = "idle" /\ ret'.op \in QueryCalls \cup {"get_track_count"})
          => /\ parser' = parser
             /\ host' = host
             /\ w' = w]_vars
    /\ []((pc = "idle" /\ ret.op \in QueryCalls)
          => /\ QueryAgain.status = ret.status
             /\ QueryAgain.out = ret.outv)
    /\ []((pc = "idle" /\ ret.op = "get_track_count" /\ parser.live)
          => ret.val = Len(parser.context.tracks))

\* mp4parse_get_track_info has returned MP4PARSE_ERROR_INVALID for a track
\* of a Parsed handle, which it left Parsed with its four tracks.
C33_Witness ==
    /\ pc = "idle"
    /\ ret.op = "get_track_info"
    /\ ~ret.hnull /\ ~ret.onull
    /\ ret.status = "INVALID"
    /\ parser.live
    /\ ~parser.poisoned
    /\ Len(parser.context.tracks) = 4
    /\ parser.io = HostIo

====
